---- MODULE Spec2Model ----
(***************************************************************************)
(* Model of scripts/seed_reminders.py: a command-line program that parses  *)
(* five optional flags, assembles a JSON payload, prints the command line, *)
(* runs `npx convex run ...` as a child process and reports its status.    *)
(*                                                                         *)
(* Text is modelled as a sequence of one-character strings, so that        *)
(* parsing (int), formatting (json.dumps, f-strings) and joining are       *)
(* computed character by character as the interpreter computes them.       *)
(* Process exit statuses follow POSIX (the low 8 bits of the value handed  *)
(* to exit); option classification follows CPython 3.11's argparse.        *)
(***************************************************************************)
EXTENDS Integers, Sequences, FiniteSets, TLC

(***************************************************************************)
(* Bounds of the model.                                                    *)
(***************************************************************************)
\* longest command line enumerated token by token (every sequence over Tokens)
MaxArgs == 3
\* the child reports exit codes 0..MaxExit besides the extreme 255
MaxExit == 2
\* the child is killed by signals 1..MaxSignal (return code -signal)
MaxSignal == 2

(***************************************************************************)
(* Text helpers.                                                           *)
(***************************************************************************)
Digits == <<"0", "1", "2", "3", "4", "5", "6", "7", "8", "9">>

DigitSet == {Digits[i] : i \in 1..10}

DigitVal(c) == (CHOOSE i \in 1..10 : Digits[i] = c) - 1

StartsWith(s, p) == Len(p) <= Len(s) /\ SubSeq(s, 1, Len(p)) = p

Contains(s, c) == \E i \in 1..Len(s) : s[i] = c

\* index of the first occurrence of c in s, 0 when there is none
IndexOf(s, c) ==
    IF Contains(s, c) THEN CHOOSE i \in 1..Len(s) : s[i] = c /\ \A j \in 1..(i - 1) : s[j] # c
    ELSE 0

Tail2(s, i) == SubSeq(s, i, Len(s))

\* str.strip() restricted to the blank character
RECURSIVE LStrip(_)
LStrip(s) == IF s # <<>> /\ s[1] = " " THEN LStrip(Tail(s)) ELSE s

RECURSIVE RStrip(_)
RStrip(s) == IF s # <<>> /\ s[Len(s)] = " " THEN RStrip(SubSeq(s, 1, Len(s) - 1)) ELSE s

Strip(s) == RStrip(LStrip(s))

RECURSIVE Flatten(_)
Flatten(ss) == IF ss = <<>> THEN <<>> ELSE ss[1] \o Flatten(Tail(ss))

\* sep.join(parts)
RECURSIVE Join(_, _)
Join(sep, parts) ==
    IF parts = <<>> THEN <<>>
    ELSE IF Len(parts) = 1 THEN parts[1]
    ELSE parts[1] \o sep \o Join(sep, Tail(parts))

(***************************************************************************)
(* int(s): optional blanks, optional sign, decimal digits that may be      *)
(* grouped by single underscores.  Result: [ok, val].                      *)
(***************************************************************************)
RECURSIVE DigitsValue(_, _)
DigitsValue(s, acc) ==
    IF s = <<>> THEN acc
    ELSE IF s[1] = "_" THEN DigitsValue(Tail(s), acc)
    ELSE DigitsValue(Tail(s), 10 * acc + DigitVal(s[1]))

ValidDigits(s) ==
    /\ s # <<>>
    /\ \A i \in 1..Len(s) : s[i] \in DigitSet \cup {"_"}
    /\ s[1] \in DigitSet
    /\ s[Len(s)] \in DigitSet
    /\ \A i \in 1..(Len(s) - 1) : ~(s[i] = "_" /\ s[i + 1] = "_")

PyInt(str) ==
    LET s    == Strip(str)
        neg  == s # <<>> /\ s[1] = "-"
        sgn  == s # <<>> /\ s[1] \in {"+", "-"}
        body == IF sgn THEN Tail(s) ELSE s
    IN  IF ValidDigits(body)
        THEN [ok |-> TRUE, val |-> IF neg THEN 0 - DigitsValue(body, 0) ELSE DigitsValue(body, 0)]
        ELSE [ok |-> FALSE, val |-> 0]

(***************************************************************************)
(* str(n) of an integer, as used by json.dumps and by f-strings.           *)
(***************************************************************************)
RECURSIVE NatToStr(_)
NatToStr(n) ==
    IF n < 10 THEN <<Digits[n + 1]>>
    ELSE NatToStr(n \div 10) \o <<Digits[(n % 10) + 1]>>

IntToStr(n) == IF n < 0 THEN <<"-">> \o NatToStr(0 - n) ELSE NatToStr(n)

(***************************************************************************)
(* The parser built by main(): the built-in help option and the five       *)
(* add_argument calls, in registration order.                              *)
(***************************************************************************)
OptH == <<"-", "h">>

OptHelp == <<"-", "-", "h", "e", "l", "p">>

OptCount1h == <<"-", "-", "c", "o", "u", "n", "t", "-", "1", "h">>

OptCount24h == <<"-", "-", "c", "o", "u", "n", "t", "-", "2", "4", "h">>

OptMinutes1h == <<"-", "-", "m", "i", "n", "u", "t", "e", "s", "-", "1", "h">>

OptMinutes24h == <<"-", "-", "m", "i", "n", "u", "t", "e", "s", "-", "2", "4", "h">>

OptTeamName == <<"-", "-", "t", "e", "a", "m", "-", "n", "a", "m", "e">>

DefaultTeamName == <<"S", "e", "e", "d", " ", "T", "e", "a", "m">>

\* a Python value carries its type: an int or a str
IntVal(n) == [t |-> "int", v |-> n]

StrVal(s) == [t |-> "str", v |-> s]

HelpAction == [kind |-> "help", dest |-> "help", type |-> "none", default |-> IntVal(0)]

ArgCount1h == [kind |-> "store", dest |-> "count_1h", type |-> "int", default |-> IntVal(2)]

ArgCount24h == [kind |-> "store", dest |-> "count_24h", type |-> "int", default |-> IntVal(2)]

ArgMinutes1h == [kind |-> "store", dest |-> "minutes_1h", type |-> "int", default |-> IntVal(65)]

\* variant: the 24h offset defaults to exactly one day
ArgMinutes24hOneDay == [kind |-> "store", dest |-> "minutes_24h", type |-> "int", default |-> IntVal(24 * 60)]

ArgMinutes24h == [kind |-> "store", dest |-> "minutes_24h", type |-> "int", default |-> IntVal(24 * 60 + 10)]

ArgTeamName == [kind |-> "store", dest |-> "team_name", type |-> "str", default |-> StrVal(DefaultTeamName)]

\* parser._option_string_actions
OptionStrings == {OptH, OptHelp, OptCount1h, OptCount24h, OptMinutes1h, OptMinutes24h, OptTeamName}

ActionOf(opt) ==
    CASE opt = OptH -> HelpAction
      [] opt = OptHelp -> HelpAction
      [] opt = OptCount1h -> ArgCount1h
      [] opt = OptCount24h -> ArgCount24h
      [] opt = OptMinutes1h -> ArgMinutes1h
      [] opt = OptMinutes24h -> ArgMinutes24h
      [] opt = OptTeamName -> ArgTeamName

\* the namespace before any option is taken: every dest at its default
DefaultNamespace ==
    [count_1h    |-> ArgCount1h.default,
     count_24h   |-> ArgCount24h.default,
     minutes_1h  |-> ArgMinutes1h.default,
     minutes_24h |-> ArgMinutes24h.default,
     team_name   |-> ArgTeamName.default]

(***************************************************************************)
(* argparse: classification of one argument string (_parse_optional).      *)
(* Result: cls is "A" (argument), "O" (option) or "ambiguous"; opt is the  *)
(* matched option string, <<>> for an option the parser does not know.     *)
(***************************************************************************)
NoExplicit == [has |-> FALSE, val |-> <<>>]

Explicit(v) == [has |-> TRUE, val |-> v]

BeforeEq(arg) == SubSeq(arg, 1, IndexOf(arg, "=") - 1)

AfterEq(arg) == Tail2(arg, IndexOf(arg, "=") + 1)

AllDigits(s) == s # <<>> /\ \A i \in 1..Len(s) : s[i] \in DigitSet

\* '^-\d+$|^-\d*\.\d+$'
NegativeNumberLike(arg) ==
    /\ arg # <<>>
    /\ arg[1] = "-"
    /\ LET r == Tail(arg)
           d == IndexOf(r, ".")
       IN  \/ AllDigits(r)
           \/ /\ d > 0
              /\ \A i \in 1..(d - 1) : r[i] \in DigitSet
              /\ AllDigits(Tail2(r, d + 1))

GetOptionTuples(arg) ==
    IF arg[2] = "-"
    THEN LET prefix == IF Contains(arg, "=") THEN BeforeEq(arg) ELSE arg
             expl   == IF Contains(arg, "=") THEN Explicit(AfterEq(arg)) ELSE NoExplicit
         IN  {[opt |-> o, explicit |-> expl] : o \in {x \in OptionStrings : StartsWith(x, prefix)}}
    ELSE {[opt |-> o, explicit |-> Explicit(Tail2(arg, 3))] :
              o \in {x \in OptionStrings : x = SubSeq(arg, 1, 2)}}
         \cup
         {[opt |-> o, explicit |-> NoExplicit] :
              o \in {x \in OptionStrings : x # SubSeq(arg, 1, 2) /\ StartsWith(x, arg)}}

ParseOptional(arg) ==
    IF arg = <<>> THEN [cls |-> "A", opt |-> <<>>, explicit |-> NoExplicit]
    ELSE IF arg[1] # "-" THEN [cls |-> "A", opt |-> <<>>, explicit |-> NoExplicit]
    ELSE IF arg \in OptionStrings THEN [cls |-> "O", opt |-> arg, explicit |-> NoExplicit]
    ELSE IF Len(arg) = 1 THEN [cls |-> "A", opt |-> <<>>, explicit |-> NoExplicit]
    ELSE IF Contains(arg, "=") /\ BeforeEq(arg) \in OptionStrings
         THEN [cls |-> "O", opt |-> BeforeEq(arg), explicit |-> Explicit(AfterEq(arg))]
    ELSE LET tuples == GetOptionTuples(arg)
         IN  IF Cardinality(tuples) > 1
                 THEN [cls |-> "ambiguous", opt |-> <<>>, explicit |-> NoExplicit]
             ELSE IF Cardinality(tuples) = 1
                 THEN LET t == CHOOSE x \in tuples : TRUE
                      IN  [cls |-> "O", opt |-> t.opt, explicit |-> t.explicit]
             ELSE IF NegativeNumberLike(arg)
                 THEN [cls |-> "A", opt |-> <<>>, explicit |-> NoExplicit]
             ELSE IF Contains(arg, " ")
                 THEN [cls |-> "A", opt |-> <<>>, explicit |-> NoExplicit]
             ELSE [cls |-> "O", opt |-> <<>>, explicit |-> NoExplicit]

(***************************************************************************)
(* argparse: the consume loop of _parse_known_args followed by the         *)
(* unrecognized-arguments check of parse_args.  Result: status is "ok"     *)
(* (namespace in ns), "error" (usage error, exit 2) or "help" (help text   *)
(* printed, exit 0).                                                       *)
(***************************************************************************)
\* variant: a text that is not an integer is taken as 0 instead of refused
GetValueLenient(action, str) ==
    IF action.type = "int"
    THEN [ok |-> TRUE, val |-> IntVal(PyInt(str).val)]
    ELSE [ok |-> TRUE, val |-> StrVal(str)]

\* type=int / type=str applied to one argument string (_get_value)
GetValue(action, str) ==
    IF action.type = "int"
    THEN [ok |-> PyInt(str).ok, val |-> IntVal(PyInt(str).val)]
    ELSE [ok |-> TRUE, val |-> StrVal(str)]

\* the help option with an explicit argument: "-hX" retries "-X" as a further
\* short option, "--help=X" is refused
RECURSIVE ConsumeHelp(_, _)
ConsumeHelp(opt, explicit) ==
    IF ~explicit.has THEN "help"
    ELSE IF opt[2] # "-" /\ explicit.val # <<>>
         THEN IF <<"-", explicit.val[1]>> \in OptionStrings
              THEN ConsumeHelp(<<"-", explicit.val[1]>>,
                               IF Len(explicit.val) > 1 THEN Explicit(Tail(explicit.val))
                               ELSE NoExplicit)
              ELSE "error"
    ELSE "error"

RECURSIVE ConsumeFrom(_, _, _, _)
ConsumeFrom(args, i, ns, extras) ==
    IF i > Len(args)
    THEN IF extras > 0 THEN [status |-> "error", ns |-> ns] ELSE [status |-> "ok", ns |-> ns]
    ELSE LET c == ParseOptional(args[i])
         IN  IF c.cls = "A" \/ c.opt = <<>>
             THEN ConsumeFrom(args, i + 1, ns, extras + 1)
             ELSE LET action == ActionOf(c.opt)
                  IN  IF action.kind = "help"
                      THEN [status |-> ConsumeHelp(c.opt, c.explicit), ns |-> ns]
                      ELSE IF c.explicit.has
                      THEN LET v == GetValue(action, c.explicit.val)
                           IN  IF v.ok
                               THEN ConsumeFrom(args, i + 1, [ns EXCEPT ![action.dest] = v.val], extras)
                               ELSE [status |-> "error", ns |-> ns]
                      ELSE IF i + 1 <= Len(args) /\ ParseOptional(args[i + 1]).cls = "A"
                      THEN LET v == GetValue(action, args[i + 1])
                           IN  IF v.ok
                               THEN ConsumeFrom(args, i + 2, [ns EXCEPT ![action.dest] = v.val], extras)
                               ELSE [status |-> "error", ns |-> ns]
                      ELSE [status |-> "error", ns |-> ns]

\* parser.parse_args(): an ambiguous abbreviation anywhere is reported while the
\* arguments are classified, before any option is consumed
ParseArgsResult(args) ==
    IF \E i \in 1..Len(args) : ParseOptional(args[i]).cls = "ambiguous"
    THEN [status |-> "error", ns |-> DefaultNamespace]
    ELSE ConsumeFrom(args, 1, DefaultNamespace, 0)

(***************************************************************************)
(* json.dumps of a dict of ints and strs (default separators, ASCII        *)
(* letters, digits and punctuation; the quote and the backslash escaped).  *)
(***************************************************************************)
EscapeChar(c) ==
    IF c = "\"" THEN <<"\\", "\"">>
    ELSE IF c = "\\" THEN <<"\\", "\\">>
    ELSE <<c>>

JsonString(s) == <<"\"">> \o Flatten([i \in 1..Len(s) |-> EscapeChar(s[i])]) \o <<"\"">>

JsonValue(x) == IF x.t = "int" THEN IntToStr(x.v) ELSE JsonString(x.v)

JsonItem(item) == JsonString(item.key) \o <<":", " ">> \o JsonValue(item.val)

JsonDumps(dict) ==
    <<"{">> \o Join(<<",", " ">>, [i \in 1..Len(dict) |-> JsonItem(dict[i])]) \o <<"}">>

(***************************************************************************)
(* main(): payload, command line and the lines it prints.                  *)
(***************************************************************************)
KeyCount1h == <<"c", "o", "u", "n", "t", "1", "h">>

KeyCount24h == <<"c", "o", "u", "n", "t", "2", "4", "h">>

KeyMinutes1h == <<"m", "i", "n", "u", "t", "e", "s", "F", "r", "o", "m", "N", "o", "w", "F", "o", "r", "1", "h">>

KeyMinutes24h == <<"m", "i", "n", "u", "t", "e", "s", "F", "r", "o", "m", "N", "o", "w", "F", "o", "r", "2", "4", "h">>

KeyTeamName == <<"r", "e", "u", "s", "e", "T", "e", "a", "m", "N", "a", "m", "e">>

Npx == <<"n", "p", "x">>

Convex == <<"c", "o", "n", "v", "e", "x">>

Run == <<"r", "u", "n">>

SeedAction == <<"i", "n", "t", "e", "r", "n", "a", "l", ".", "r", "e", "m", "i", "n", "d", "e", "r", "s", ".", "s", "e", "e", "d", "R", "e", "m", "i", "n", "d", "e", "r", "s", "T", "e", "s", "t", "D", "a", "t", "a">>

RunningLabel == <<"R", "u", "n", "n", "i", "n", "g", ":">>

SeedFailedHead == <<"S", "e", "e", "d", " ", "f", "a", "i", "l", "e", "d", " ", "(", "e", "x", "i", "t", " ">>

SeedFailedTail == <<")", ".">>

\* the first word of the usage/help text argparse writes
UsageText == <<"u", "s", "a", "g", "e", ":">>

\* the first word of the report the interpreter writes for an uncaught exception
TracebackText == <<"T", "r", "a", "c", "e", "b", "a", "c", "k">>

\* variant: the two minute offsets are read from each other's flag
BuildPayloadSwapped(a) ==
    <<[key |-> KeyCount1h,    val |-> a.count_1h],
      [key |-> KeyCount24h,   val |-> a.count_24h],
      [key |-> KeyMinutes1h,  val |-> a.minutes_24h],
      [key |-> KeyMinutes24h, val |-> a.minutes_1h],
      [key |-> KeyTeamName,   val |-> a.team_name]>>

\* the dict literal: keys in the order written, values read from the namespace
BuildPayload(a) ==
    <<[key |-> KeyCount1h,    val |-> a.count_1h],
      [key |-> KeyCount24h,   val |-> a.count_24h],
      [key |-> KeyMinutes1h,  val |-> a.minutes_1h],
      [key |-> KeyMinutes24h, val |-> a.minutes_24h],
      [key |-> KeyTeamName,   val |-> a.team_name]>>

BuildCmd(p) == <<Npx, Convex, Run, SeedAction, JsonDumps(p)>>

\* variant: only the payload is printed, not the command
RunningLinePayloadOnly(c) == RunningLabel \o <<" ">> \o c[Len(c)]

\* print("Running:", " ".join(cmd))
RunningLine(c) == RunningLabel \o <<" ">> \o Join(<<" ">>, c)

\* f"Seed failed (exit {e.returncode})."
SeedFailedLine(rc) == SeedFailedHead \o IntToStr(rc) \o SeedFailedTail

\* variant: every return code is treated as a failure
CheckFailsAlways(rc) == TRUE

\* subprocess.run(check=True) raises CalledProcessError for these return codes
CheckFails(rc) == rc # 0

\* variant: a fixed failure code instead of the child's
FailureResultOne(rc) == 1

\* the value main() returns from the except clause
FailureResult(rc) == rc

\* variant: main() is called without handing its result to SystemExit
ExitStatusIgnored(n) == 0

\* raise SystemExit(n): the status the parent observes is the low 8 bits of n
ExitStatus(n) == n % 256

\* status of parser.error()
UsageErrorStatus == 2

\* status of the help action
HelpStatus == 0

\* status of an uncaught exception
UncaughtStatus == 1

(***************************************************************************)
(* Inputs: the command lines the program is started with and the return    *)
(* codes subprocess can report for the child.                              *)
(***************************************************************************)
IntTexts == {<<"5">>, <<"7", "0">>, <<"-", "3">>}

TeamTexts == {<<"B", "o", "b">>, <<"a", "\"", "b">>}

Tokens ==
    {OptCount1h, OptCount24h, OptMinutes1h, OptMinutes24h, OptTeamName, OptHelp, OptH,
     <<"-", "-", "t", "e", "a", "m">>,
     <<"-", "-", "c", "o", "u", "n", "t">>,
     <<"-", "-", "b", "o", "g", "u", "s">>,
     <<"-", "-", "c", "o", "u", "n", "t", "-", "1", "h", "=", "5">>,
     <<"-", "x">>,
     <<"5">>, <<"-", "3">>, <<" ", "1", "_", "0">>, <<"1", ".", "5">>, <<"a", "b", "c">>, <<>>}

\* every command line of at most MaxArgs tokens
ShortArgv == UNION {[1..n -> Tokens] : n \in 0..MaxArgs}

\* a flag followed by one of its values, or nothing
FlagChoice(opt, texts) == {<<>>} \cup {<<opt, t>> : t \in texts}

\* every command line that gives any subset of the five flags a valid value
WellFormedArgv ==
    {a \o b \o c \o d \o e :
        a \in FlagChoice(OptCount1h, IntTexts),
        b \in FlagChoice(OptCount24h, IntTexts),
        c \in FlagChoice(OptMinutes1h, IntTexts),
        d \in FlagChoice(OptMinutes24h, IntTexts),
        e \in FlagChoice(OptTeamName, TeamTexts)}

\* the invocations of the usage examples
UsageExamples ==
    {<<>>,
     <<OptCount1h, <<"5">>, OptCount24h, <<"5">>>>,
     <<OptMinutes1h, <<"7", "0">>, OptMinutes24h, <<"1", "4", "5", "0">>>>}

ArgvInputs == ShortArgv \cup WellFormedArgv \cup UsageExamples

\* Popen.returncode: the exit code of the child, or minus the signal that ended it
ReturnCodes == ((0 - MaxSignal)..MaxExit) \cup {255}

(***************************************************************************)
(* State.                                                                  *)
(***************************************************************************)
VARIABLES
    argv,        \* sys.argv[1:]
    pc,          \* position of the program
    args,        \* the namespace returned by parse_args
    payload,     \* the payload dict
    cmd,         \* the command list
    stdout,      \* lines the program wrote to standard output
    stderr,      \* lines the program wrote to standard error
    launches,    \* attempts to start the child
    children,    \* child processes started
    childArgv,   \* the command line handed to the last launch
    child,       \* "none", "running" or "exited"
    returncode,  \* the return code of the child once it has exited
    result,      \* the value main() returned
    exitStatus   \* the exit status of the program once pc = "exited"

vars == <<argv, pc, args, payload, cmd, stdout, stderr, launches, children,
          childArgv, child, returncode, result, exitStatus>>

Init ==
    /\ argv \in ArgvInputs
    /\ pc = "main"
    /\ args = DefaultNamespace
    /\ payload = <<>>
    /\ cmd = <<>>
    /\ stdout = <<>>
    /\ stderr = <<>>
    /\ launches = 0
    /\ children = 0
    /\ childArgv = <<>>
    /\ child = "none"
    /\ returncode = 0
    /\ result = 0
    /\ exitStatus = 0

(***************************************************************************)
(* Steps of the program.                                                   *)
(***************************************************************************)
\* parse_args() returns the namespace
ParseArgs ==
    /\ pc = "main"
    /\ ParseArgsResult(argv).status = "ok"
    /\ args' = ParseArgsResult(argv).ns
    /\ pc' = "parsed"
    /\ UNCHANGED <<argv, payload, cmd, stdout, stderr, launches, children,
                   childArgv, child, returncode, result, exitStatus>>

\* parse_args() reports a usage error on standard error and exits
UsageError ==
    /\ pc = "main"
    /\ ParseArgsResult(argv).status = "error"
    /\ stderr' = Append(stderr, UsageText)
    /\ exitStatus' = UsageErrorStatus
    /\ pc' = "exited"
    /\ UNCHANGED <<argv, args, payload, cmd, stdout, launches, children,
                   childArgv, child, returncode, result>>

\* parse_args() meets -h/--help: prints the help text and exits
HelpExit ==
    /\ pc = "main"
    /\ ParseArgsResult(argv).status = "help"
    /\ stdout' = Append(stdout, UsageText)
    /\ exitStatus' = HelpStatus
    /\ pc' = "exited"
    /\ UNCHANGED <<argv, args, payload, cmd, stderr, launches, children,
                   childArgv, child, returncode, result>>

\* payload = {...}; cmd = [...]
BuildCommand ==
    /\ pc = "parsed"
    /\ payload' = BuildPayload(args)
    /\ cmd' = BuildCmd(BuildPayload(args))
    /\ pc' = "built"
    /\ UNCHANGED <<argv, args, stdout, stderr, launches, children,
                   childArgv, child, returncode, result, exitStatus>>

\* print("Running:", " ".join(cmd))
PrintCommand ==
    /\ pc = "built"
    /\ stdout' = Append(stdout, RunningLine(cmd))
    /\ pc' = "printed"
    /\ UNCHANGED <<argv, args, payload, cmd, stderr, launches, children,
                   childArgv, child, returncode, result, exitStatus>>

\* subprocess.run starts the child and waits for it
Launch ==
    /\ pc = "printed"
    /\ launches' = launches + 1
    /\ children' = children + 1
    /\ childArgv' = cmd
    /\ child' = "running"
    /\ pc' = "waiting"
    /\ UNCHANGED <<argv, args, payload, cmd, stdout, stderr, returncode, result, exitStatus>>

\* variant: the failure to start the tool is caught and main() returns 0
LaunchFailsSwallowed ==
    /\ pc = "printed"
    /\ launches' = launches + 1
    /\ childArgv' = cmd
    /\ result' = 0
    /\ pc' = "returned"
    /\ UNCHANGED <<argv, args, payload, cmd, stdout, stderr, children, child, returncode, exitStatus>>

\* subprocess.run cannot start the tool: OSError is not caught by main(), the
\* interpreter reports it and exits
LaunchFails ==
    /\ pc = "printed"
    /\ launches' = launches + 1
    /\ childArgv' = cmd
    /\ stderr' = Append(stderr, TracebackText)
    /\ exitStatus' = UncaughtStatus
    /\ pc' = "exited"
    /\ UNCHANGED <<argv, args, payload, cmd, stdout, children, child, returncode, result>>

\* the child ends, by exit or by a signal (a step of the environment)
ChildExits ==
    /\ child = "running"
    /\ \E rc \in ReturnCodes : returncode' = rc
    /\ child' = "exited"
    /\ UNCHANGED <<argv, pc, args, payload, cmd, stdout, stderr, launches, children,
                   childArgv, result, exitStatus>>

\* variant: the wait gives up while the child is still running
WaitOverOrTimeout == child \in {"running", "exited"}

\* the wait inside subprocess.run is over
WaitOver == child = "exited"

\* subprocess.run returns; return 0
RunReturns ==
    /\ pc = "waiting"
    /\ WaitOver
    /\ ~CheckFails(returncode)
    /\ result' = 0
    /\ pc' = "returned"
    /\ UNCHANGED <<argv, args, payload, cmd, stdout, stderr, launches, children,
                   childArgv, child, returncode, exitStatus>>

\* variant: after a failed child the command is launched again
RunRaisesRetry ==
    /\ pc = "waiting"
    /\ WaitOver
    /\ CheckFails(returncode)
    /\ stderr' = Append(stderr, SeedFailedLine(returncode))
    /\ result' = FailureResult(returncode)
    /\ child' = "none"
    /\ pc' = "printed"
    /\ UNCHANGED <<argv, args, payload, cmd, stdout, launches, children,
                   childArgv, returncode, exitStatus>>

\* subprocess.run raises CalledProcessError; the except clause reports and returns
RunRaises ==
    /\ pc = "waiting"
    /\ WaitOver
    /\ CheckFails(returncode)
    /\ stderr' = Append(stderr, SeedFailedLine(returncode))
    /\ result' = FailureResult(returncode)
    /\ pc' = "returned"
    /\ UNCHANGED <<argv, args, payload, cmd, stdout, launches, children,
                   childArgv, child, returncode, exitStatus>>

\* raise SystemExit(main())
Exit ==
    /\ pc = "returned"
    /\ exitStatus' = ExitStatus(result)
    /\ pc' = "exited"
    /\ UNCHANGED <<argv, args, payload, cmd, stdout, stderr, launches, children,
                   childArgv, child, returncode, result>>

ProgramStep ==
    \/ ParseArgs
    \/ UsageError
    \/ HelpExit
    \/ BuildCommand
    \/ PrintCommand
    \/ Launch
    \/ LaunchFails
    \/ RunReturns
    \/ RunRaises
    \/ Exit

Next == ProgramStep \/ ChildExits

Spec == Init /\ [][Next]_vars

\* command lines for the runs followed to their end: the usage examples, one
\* flag in each of its forms, the help option and two usage errors
SampleArgv ==
    UsageExamples \cup
    {<<OptCount1h, <<"-", "3">>>>,
     <<OptMinutes1h, <<" ", "1", "_", "0">>>>,
     <<OptTeamName, <<"a", "\"", "b">>>>,
     <<<<"-", "-", "t", "e", "a", "m">>, <<"a", "b", "c">>>>,
     <<<<"-", "-", "c", "o", "u", "n", "t", "-", "1", "h", "=", "5">>>>,
     <<OptHelp>>,
     <<OptCount24h>>,
     <<OptCount24h, <<"a", "b", "c">>>>}

SampleInit == Init /\ argv \in SampleArgv

\* the program's own steps are taken when they are enabled; the child is not
\* obliged to end
FairSpec == SampleInit /\ [][Next]_vars /\ WF_vars(ProgramStep)

(***************************************************************************)
(* Reading the observable results back: the JSON text handed to the child, *)
(* the flags present on the command line, the lines on the two streams.    *)
(***************************************************************************)
JsonFail == [ok |-> FALSE, dict |-> <<>>]

\* the characters of a JSON string whose opening quote precedes position i
RECURSIVE ReadString(_, _, _)
ReadString(s, i, acc) ==
    IF i > Len(s) THEN [ok |-> FALSE, val |-> acc, next |-> i]
    ELSE IF s[i] = "\"" THEN [ok |-> TRUE, val |-> acc, next |-> i + 1]
    ELSE IF s[i] = "\\" /\ i < Len(s) THEN ReadString(s, i + 2, Append(acc, s[i + 1]))
    ELSE ReadString(s, i + 1, Append(acc, s[i]))

\* the end of the run of sign and digit characters that starts at position i
RECURSIVE NumberEnd(_, _)
NumberEnd(s, i) ==
    IF i <= Len(s) /\ s[i] \in DigitSet \cup {"-"} THEN NumberEnd(s, i + 1) ELSE i

RECURSIVE ReadItems(_, _, _)
ReadItems(s, i, acc) ==
    IF i + 1 > Len(s) \/ s[i] # "\"" THEN JsonFail
    ELSE LET k == ReadString(s, i + 1, <<>>)
         IN  IF ~k.ok \/ k.next + 2 > Len(s) \/ s[k.next] # ":" \/ s[k.next + 1] # " " THEN JsonFail
             ELSE LET at  == k.next + 2
                      str == ReadString(s, at + 1, <<>>)
                      ne  == NumberEnd(s, at)
                      isS == s[at] = "\""
                      ok  == IF isS THEN str.ok ELSE ne > at /\ PyInt(SubSeq(s, at, ne - 1)).ok
                      val == IF isS THEN StrVal(str.val) ELSE IntVal(PyInt(SubSeq(s, at, ne - 1)).val)
                      nx  == IF isS THEN str.next ELSE ne
                      got == Append(acc, [key |-> k.val, val |-> val])
                  IN  IF ~ok \/ nx > Len(s) THEN JsonFail
                      ELSE IF s[nx] = "}" /\ nx = Len(s) THEN [ok |-> TRUE, dict |-> got]
                      ELSE IF s[nx] = "," /\ nx + 1 <= Len(s) /\ s[nx + 1] = " "
                           THEN ReadItems(s, nx + 2, got)
                      ELSE JsonFail

\* json.loads of an object of ints and strs
JsonLoads(s) == IF s # <<>> /\ s[1] = "{" THEN ReadItems(s, 2, <<>>) ELSE JsonFail

\* the object the child receives as its last argument
ChildPayload == JsonLoads(childArgv[Len(childArgv)])

Field(d, key) == (CHOOSE i \in 1..Len(d.dict) : d.dict[i].key = key)

FieldValue(d, key) == d.dict[Field(d, key)].val

PayloadKeys == <<KeyCount1h, KeyCount24h, KeyMinutes1h, KeyMinutes24h, KeyTeamName>>

HasFiveFields(d) == d.ok /\ [i \in 1..Len(d.dict) |-> d.dict[i].key] = PayloadKeys

\* the flag name of a token: the part before "="
FlagName(t) == IF Contains(t, "=") THEN BeforeEq(t) ELSE t

\* positions of argv that give the flag opt, in full, abbreviated or with "=value"
GivenAt(opt) ==
    {i \in 1..Len(argv) : Len(FlagName(argv[i])) > 2 /\ StartsWith(opt, FlagName(argv[i]))}

Given(opt) == GivenAt(opt) # {}

LastGiven(opt) == CHOOSE i \in GivenAt(opt) : \A j \in GivenAt(opt) : j <= i

\* the text given to the flag opt (its last occurrence)
GivenText(opt) ==
    IF Contains(argv[LastGiven(opt)], "=") THEN AfterEq(argv[LastGiven(opt)])
    ELSE argv[LastGiven(opt) + 1]

Launched == launches > 0

\* C3: once a launch is made, the JSON object handed to the child has exactly
\* the five fields count1h, count24h, minutesFromNowFor1h, minutesFromNowFor24h,
\* reuseTeamName, and the field of every flag given on the command line holds
\* the value parsed from that flag's text (integer for the four integer flags,
\* the text itself for --team-name).
C3_PayloadEqualsFlags ==
    Launched =>
        /\ HasFiveFields(ChildPayload)
        /\ Given(OptCount1h) =>
               FieldValue(ChildPayload, KeyCount1h) = IntVal(PyInt(GivenText(OptCount1h)).val)
        /\ Given(OptCount24h) =>
               FieldValue(ChildPayload, KeyCount24h) = IntVal(PyInt(GivenText(OptCount24h)).val)
        /\ Given(OptMinutes1h) =>
               FieldValue(ChildPayload, KeyMinutes1h) = IntVal(PyInt(GivenText(OptMinutes1h)).val)
        /\ Given(OptMinutes24h) =>
               FieldValue(ChildPayload, KeyMinutes24h) = IntVal(PyInt(GivenText(OptMinutes24h)).val)
        /\ Given(OptTeamName) =>
               FieldValue(ChildPayload, KeyTeamName) = StrVal(GivenText(OptTeamName))

\* a child runs with all five flags given, each with a value other than its default
C3_Witness ==
    /\ children = 1
    /\ Given(OptCount1h) /\ Given(OptCount24h) /\ Given(OptMinutes1h)
    /\ Given(OptMinutes24h) /\ Given(OptTeamName)
    /\ FieldValue(ChildPayload, KeyMinutes1h) = IntVal(70)
    /\ FieldValue(ChildPayload, KeyMinutes24h) = IntVal(0 - 3)
    /\ FieldValue(ChildPayload, KeyCount1h) = IntVal(5)
    /\ FieldValue(ChildPayload, KeyTeamName) = StrVal(<<"a", "\"", "b">>)

\* C4: once a launch is made, the field of every flag that is not given on the
\* command line holds its fixed default: count1h 2, count24h 2,
\* minutesFromNowFor1h 65, minutesFromNowFor24h 1450, reuseTeamName "Seed Team".
C4_DefaultsForAbsentFlags ==
    Launched =>
        /\ HasFiveFields(ChildPayload)
        /\ ~Given(OptCount1h) => FieldValue(ChildPayload, KeyCount1h) = IntVal(2)
        /\ ~Given(OptCount24h) => FieldValue(ChildPayload, KeyCount24h) = IntVal(2)
        /\ ~Given(OptMinutes1h) => FieldValue(ChildPayload, KeyMinutes1h) = IntVal(65)
        /\ ~Given(OptMinutes24h) => FieldValue(ChildPayload, KeyMinutes24h) = IntVal(1450)
        /\ ~Given(OptTeamName) =>
               FieldValue(ChildPayload, KeyTeamName) = StrVal(<<"S", "e", "e", "d", " ", "T", "e", "a", "m">>)

\* a child runs for --count-1h 5 --count-24h 5: the two counts are 5, the rest default
C4_Witness ==
    /\ children = 1
    /\ argv = <<OptCount1h, <<"5">>, OptCount24h, <<"5">>>>
    /\ FieldValue(ChildPayload, KeyCount1h) = IntVal(5)
    /\ FieldValue(ChildPayload, KeyCount24h) = IntVal(5)
    /\ FieldValue(ChildPayload, KeyMinutes1h) = IntVal(65)
    /\ FieldValue(ChildPayload, KeyMinutes24h) = IntVal(1450)

IsSeedFailedLine(l) ==
    /\ Len(l) > Len(SeedFailedHead) + Len(SeedFailedTail)
    /\ StartsWith(l, SeedFailedHead)
    /\ Tail2(l, Len(l) - Len(SeedFailedTail) + 1) = SeedFailedTail

SeedFailedNumber(l) == PyInt(SubSeq(l, Len(SeedFailedHead) + 1, Len(l) - Len(SeedFailedTail)))

SeedFailedReported(n) ==
    \E i \in 1..Len(stderr) :
        /\ IsSeedFailedLine(stderr[i])
        /\ SeedFailedNumber(stderr[i]).ok
        /\ SeedFailedNumber(stderr[i]).val = n

NoSeedFailedLine == \A i \in 1..Len(stderr) : ~IsSeedFailedLine(stderr[i])

Exited == pc = "exited"

\* the program has exited after its child ended with return code N # 0
ChildFailedRun == Exited /\ children = 1 /\ child = "exited" /\ returncode # 0

\* C1 (as stated): when the child ends with return code N # 0, the program has
\* written "Seed failed (exit N)." to standard error and its own exit status is N.
C1_ExitStatusIsReturnCode ==
    ChildFailedRun => SeedFailedReported(returncode) /\ exitStatus = returncode

\* C1 (amended): when the child ends with return code N # 0, the program has
\* written "Seed failed (exit N)." to standard error, and its own exit status is
\* N for N in 1..255 and 256 + N for the negative N of a child ended by a
\* signal; the status is never 0.
C1_ExitStatusIsLowByteOfReturnCode ==
    ChildFailedRun =>
        /\ SeedFailedReported(returncode)
        /\ exitStatus = (IF returncode > 0 THEN returncode ELSE 256 + returncode)
        /\ exitStatus \in 1..255

\* the child was ended by a signal and the program has exited
C1_Witness ==
    /\ ChildFailedRun
    /\ returncode < 0
    /\ exitStatus = 256 + returncode
    /\ SeedFailedReported(returncode)

\* C2: in no state of a run whose child returned 0 is there a "Seed failed" line
\* on standard error, and when the program has exited in such a run its exit
\* status is 0 and standard error is empty.
C2_SuccessIsSilent ==
    (children = 1 /\ child = "exited" /\ returncode = 0) =>
        /\ NoSeedFailedLine
        /\ Exited => exitStatus = 0 /\ stderr = <<>>

\* the child returned 0 and the program has exited with status 0
C2_Witness ==
    /\ Exited
    /\ children = 1
    /\ child = "exited"
    /\ returncode = 0
    /\ exitStatus = 0

UsageErrorReported == \E i \in 1..Len(stderr) : stderr[i] = UsageText

HelpPrinted == \E i \in 1..Len(stdout) : stdout[i] = UsageText

TracebackReported == \E i \in 1..Len(stderr) : stderr[i] = TracebackText

\* C5 (as stated): no state has more than one child launched, and when the
\* program has exited exactly one child was launched.
C5_ExactlyOneChild ==
    /\ children <= 1
    /\ Exited => children = 1

\* C5 (amended): no state has more than one launch attempt or more than one
\* child, and when the program has exited exactly one child was launched unless
\* the run ended in a usage error, in the help text or in a failure to start the
\* tool, in which cases none was.
C5_AtMostOneChild ==
    /\ children <= 1
    /\ launches <= 1
    /\ Exited =>
           children = (IF UsageErrorReported \/ HelpPrinted \/ TracebackReported THEN 0 ELSE 1)

\* a failed child: the program has exited, one launch, one child
C5_Witness ==
    /\ ChildFailedRun
    /\ launches = 1
    /\ children = 1

IntFlags == {OptCount1h, OptCount24h, OptMinutes1h, OptMinutes24h}

ValueFlags == IntFlags \cup {OptTeamName}

\* a token that reads as a flag: a dash first, more than the dash, not a negative
\* number, no blank
FlagLike(t) == Len(t) >= 2 /\ t[1] = "-" /\ ~NegativeNumberLike(t) /\ ~Contains(t, " ")

\* an integer flag whose value does not parse as an integer
BadIntegerGiven ==
    \/ \E i \in 1..(Len(argv) - 1) :
           argv[i] \in IntFlags /\ ~FlagLike(argv[i + 1]) /\ ~PyInt(argv[i + 1]).ok
    \/ \E i \in 1..Len(argv) :
           Contains(argv[i], "=") /\ BeforeEq(argv[i]) \in IntFlags /\ ~PyInt(AfterEq(argv[i])).ok

\* a flag the parser does not know, in full or as an abbreviation
UnknownFlagGiven ==
    \E i \in 1..Len(argv) :
        /\ FlagLike(argv[i])
        /\ ~\E o \in OptionStrings : StartsWith(o, FlagName(argv[i]))

\* a flag that takes a value and is followed by none
FlagWithoutValueGiven ==
    \E i \in 1..Len(argv) :
        argv[i] \in ValueFlags /\ (i = Len(argv) \/ FlagLike(argv[i + 1]))

Malformed == BadIntegerGiven \/ UnknownFlagGiven \/ FlagWithoutValueGiven

\* C6 (as stated): on a malformed command line no launch is ever made, and when
\* the program has exited its exit status is not 0.
C6_MalformedExitsNonZero ==
    Malformed =>
        /\ launches = 0
        /\ children = 0
        /\ Exited => exitStatus # 0

\* C6 (amended): on a malformed command line no launch is ever made, and when
\* the program has exited its exit status is 2 with a usage error on standard
\* error, unless the help option ended the parsing first: then the help text is
\* on standard output and the status is 0.
C6_MalformedNeverLaunches ==
    Malformed =>
        /\ launches = 0
        /\ children = 0
        /\ Exited =>
               \/ exitStatus = 2 /\ UsageErrorReported /\ ~HelpPrinted
               \/ exitStatus = 0 /\ HelpPrinted /\ ~UsageErrorReported

\* an integer flag was given a text that is no integer: exit status 2, no launch
C6_Witness ==
    /\ Exited
    /\ BadIntegerGiven
    /\ ~HelpPrinted
    /\ exitStatus = 2
    /\ launches = 0

\* a launch was attempted and no child came of it
LaunchFailed == launches > children

\* C7: when the tool cannot be started the program has exited with a status
\* other than 0, the interpreter's report of the uncaught error is on standard
\* error, no "Seed failed" line is, there is no child and no child return code
\* was taken, main() has not returned, and the launch attempt is the only one.
C7_LaunchFailureSurfaced ==
    LaunchFailed =>
        /\ Exited
        /\ exitStatus # 0
        /\ TracebackReported
        /\ NoSeedFailedLine
        /\ child = "none"
        /\ launches = 1
        /\ children = 0

\* the tool could not be started: exit status 1 after one attempt
C7_Witness ==
    /\ LaunchFailed
    /\ Exited
    /\ exitStatus = 1
    /\ launches = 1

\* C9: while the child is running the program is blocked in the wait, has not
\* exited and has written no "Seed failed" line; and once the child has ended
\* the program eventually exits.
C9_BlocksUntilChildEnds ==
    /\ [](child = "running" => pc = "waiting" /\ NoSeedFailedLine)
    /\ [](Exited /\ children = 1 => child = "exited")
    /\ (child = "exited" ~> Exited)

\* the program has exited after its child ended
C9_Witness ==
    /\ Exited
    /\ children = 1
    /\ child = "exited"
    /\ result = returncode

\* a token that asks for help: -h, -hh..., or --help in full or abbreviated
HelpToken(t) ==
    \/ Len(t) >= 2 /\ t[1] = "-" /\ \A i \in 2..Len(t) : t[i] = "h"
    \/ Len(t) > 2 /\ StartsWith(OptHelp, t)

HelpGiven == \E i \in 1..Len(argv) : HelpToken(argv[i])

SuccessfulChildRun == children = 1 /\ child = "exited" /\ returncode = 0

\* C10 (as stated): when the program has exited with status 0, a child was
\* launched and ended with return code 0.
C10_ZeroOnlyAfterSuccessfulChild ==
    (Exited /\ exitStatus = 0) => SuccessfulChildRun

\* C10 (amended): when the program has exited with status 0, either a child was
\* launched and ended with return code 0, or the help option was given, the
\* help text is on standard output and no launch was made.
C10_ZeroOnlyAfterSuccessOrHelp ==
    (Exited /\ exitStatus = 0) =>
        \/ SuccessfulChildRun
        \/ HelpGiven /\ HelpPrinted /\ launches = 0

\* the help option ended the program with status 0 and without a launch
C10_Witness ==
    /\ Exited
    /\ exitStatus = 0
    /\ HelpGiven
    /\ HelpPrinted
    /\ launches = 0

====
